---- MODULE Spec2Model ----
(***************************************************************************)
(* Model of the i18n automation scripts.                                   *)
(*                                                                         *)
(*   updateTranslations.js  scans the sources for tr("...") calls and      *)
(*                          rebuilds every locale file, writing            *)
(*                          toTranslate.json for the missing texts;        *)
(*   mergeTranslations.js   validates a filled toTranslate.json and folds  *)
(*                          it into the locale files.                      *)
(*                                                                         *)
(* A string is a sequence of one-character strings.  A JSON object is a    *)
(* sequence of <<name, value>> pairs with distinct names, in property      *)
(* order (the order Object.keys / Object.entries enumerate).  A file is a  *)
(* record [exists, data].                                                  *)
(***************************************************************************)
EXTENDS Integers, Sequences, FiniteSets, TLC

VARIABLES
    files,        \* per source file, the keys extractTrCallsFromFile returns
    stores,       \* locale -> the file <locale>.json
    batch,        \* the file toTranslate.json
    toTranslate,  \* the object the last synchronization run assembled
    prior,        \* the locale files as they were before the last run (after a
                  \* step between the runs: as they are)
    priorBatch,   \* toTranslate.json as it was before the last run (after a step
                  \* between the runs: as it is)
    lastOp,       \* the last step taken
    repeated,     \* whether the last two steps were runs of the same script
    status,       \* how the last run ended
    reported,     \* the items the last merge run listed as untranslated
    writeFailed,  \* the locales whose file the last merge run could not write
    cut,          \* the number of locale files a stopped run had saved, when
                  \* the last step, or the step before a complete run, was such a run
    trip,         \* how far the round trip of a batch has come: "written" by a
                  \* synchronization run, "merged" whole, "closed" by the next
                  \* synchronization run ("off": the round trip is not followed)
    edits,        \* number of hand edits of files so far
    runs,         \* number of script runs so far
    content,      \* scanner: the text of the scanned file
    keys,         \* scanner: the keys returned
    scanned,      \* scanner: whether extractTrCallsFromFile has run
    lastIndex,    \* scanner, step by step: the position at which the next exec of
                  \* trCallRegex starts (0: no scan has begun)
    walkIndex,    \* scanner, step by step: index, the position of the walk (0: no
                  \* walk)
    walk          \* scanner, step by step: quote, value and the flags of the walk

vars == <<files, stores, batch, toTranslate, prior, priorBatch, lastOp, repeated,
          status, reported, writeFailed, cut, trip, edits, runs, content,
          keys, scanned, lastIndex, walkIndex, walk>>

syncVars == <<files, stores, batch, toTranslate, prior, priorBatch, lastOp,
              repeated, status, reported, writeFailed, cut, trip, edits, runs>>

stepVars == <<lastIndex, walkIndex, walk>>

scanVars == <<content, keys, scanned, lastIndex, walkIndex, walk>>

-----------------------------------------------------------------------------
(* Bounds of the model *)

MaxEdits == 1
MaxRuns == 3
MaxAtoms == 5

-----------------------------------------------------------------------------
(* Strings *)

\* The backtick character (written by name: the character itself cannot stand
\* in a string of the module).
Backtick == "BACKTICK"

\* UTF-16 code unit of the characters the model uses (String.prototype
\* comparison, which Array.prototype.sort uses by default, orders by these).
Code(c) ==
    CASE c = "\t" -> 9
      [] c = "\n" -> 10
      [] c = " " -> 32
      [] c = "\"" -> 34
      [] c = "$" -> 36
      [] c = "'" -> 39
      [] c = "(" -> 40
      [] c = "\\" -> 92
      [] c = Backtick -> 96
      [] c = "a" -> 97
      [] c = "b" -> 98
      [] c = "r" -> 114
      [] c = "t" -> 116
      [] c = "x" -> 120
      [] c = "{" -> 123
      [] OTHER -> 0

\* /\s/ on the characters of the model
IsSpace(c) == c \in {" ", "\n", "\t"}

RECURSIVE TrimStart(_)
TrimStart(s) ==
    IF s # <<>> /\ IsSpace(Head(s)) THEN TrimStart(Tail(s)) ELSE s

RECURSIVE TrimEnd(_)
TrimEnd(s) ==
    IF s # <<>> /\ IsSpace(s[Len(s)]) THEN TrimEnd(SubSeq(s, 1, Len(s) - 1)) ELSE s

\* String.prototype.trim
Trim(s) == TrimEnd(TrimStart(s))

\* s < t for JavaScript strings
RECURSIVE LexLess(_, _)
LexLess(s, t) ==
    IF t = <<>> THEN FALSE
    ELSE IF s = <<>> THEN TRUE
    ELSE IF Code(Head(s)) < Code(Head(t)) THEN TRUE
    ELSE IF Code(Head(s)) > Code(Head(t)) THEN FALSE
    ELSE LexLess(Tail(s), Tail(t))

\* Array.prototype.includes
Includes(arr, x) == \E i \in 1..Len(arr) : arr[i] = x

\* insert x into the sorted array arr
RECURSIVE InsertSorted(_, _)
InsertSorted(arr, x) ==
    IF arr = <<>> THEN <<x>>
    ELSE IF LexLess(x, Head(arr)) THEN <<x>> \o arr
    ELSE <<Head(arr)>> \o InsertSorted(Tail(arr), x)

\* Array.prototype.sort with the default comparison
RECURSIVE SortStrings(_)
SortStrings(arr) ==
    IF arr = <<>> THEN <<>>
    ELSE InsertSorted(SortStrings(SubSeq(arr, 1, Len(arr) - 1)), arr[Len(arr)])

IsSorted(arr) == \A i \in 1..(Len(arr) - 1) : LexLess(arr[i], arr[i + 1])

-----------------------------------------------------------------------------
(* JSON objects *)

\* Object.keys
ObjectKeys(obj) == [i \in 1..Len(obj) |-> obj[i][1]]

KeySet(obj) == {obj[i][1] : i \in 1..Len(obj)}

HasKey(obj, k) == \E i \in 1..Len(obj) : obj[i][1] = k

\* obj[k], for a k that obj has
Lookup(obj, k) == obj[CHOOSE i \in 1..Len(obj) : obj[i][1] = k][2]

\* obj[k] = v: an existing property keeps its place, a new one goes last
SetProp(obj, k, v) ==
    IF HasKey(obj, k)
    THEN [i \in 1..Len(obj) |-> IF obj[i][1] = k THEN <<k, v>> ELSE obj[i]]
    ELSE Append(obj, <<k, v>>)

\* the object as a mapping: what it holds regardless of property order
AsMap(obj) == [k \in KeySet(obj) |-> Lookup(obj, k)]

\* a file: whether it is there, whether its text is JSON, and the object it
\* holds
Absent == [exists |-> FALSE, valid |-> FALSE, data |-> <<>>]

FileOf(obj) == [exists |-> TRUE, valid |-> TRUE, data |-> obj]

\* a file whose text JSON.parse does not accept
Garbled == [exists |-> TRUE, valid |-> FALSE, data |-> <<>>]

-----------------------------------------------------------------------------
(* The scanner: extractTrCallsFromFile of updateTranslations.js *)

\* \w of the regular expression, on the characters of the model
IsWordChar(c) == c \in {"a", "b", "r", "t", "x"}

IsQuote(c) == c = "\"" \/ c = "'" \/ c = Backtick

\* the locals of the walk while no literal is walked
NoWalk == [quote |-> "", value |-> <<>>, hasNewline |-> FALSE,
           hasTemplateExpression |-> FALSE, escaped |-> FALSE]

\* the first position from index on that holds no whitespace (Len + 1: none)
RECURSIVE SkipWhitespace(_, _)
SkipWhitespace(text, index) ==
    IF index <= Len(text) /\ IsSpace(text[index])
    THEN SkipWhitespace(text, index + 1)
    ELSE index

\* /\btr\s*\(/ matched at position start: the position after the match, or 0
MatchEnd(text, start) ==
    IF /\ start + 1 <= Len(text)
       /\ text[start] = "t"
       /\ text[start + 1] = "r"
       /\ (start = 1 \/ ~IsWordChar(text[start - 1]))
    THEN LET paren == SkipWhitespace(text, start + 2)
         IN IF paren <= Len(text) /\ text[paren] = "(" THEN paren + 1 ELSE 0
    ELSE 0

\* trCallRegex.exec with lastIndex = from: the start of the next match, or 0
RECURSIVE NextMatch(_, _)
NextMatch(text, from) ==
    IF from > Len(text) THEN 0
    ELSE IF MatchEnd(text, from) > 0 THEN from
    ELSE NextMatch(text, from + 1)

\* an inner loop that takes the quote behind a backslash for the end
RECURSIVE WalkLiteralEndingAtEscapedQuote(_, _, _, _, _, _, _)
WalkLiteralEndingAtEscapedQuote(text, quote, index, value, hasNewline, hasTemplateExpression, escaped) ==
    IF index > Len(text)
    THEN [index |-> index, value |-> value, hasNewline |-> hasNewline,
          hasTemplateExpression |-> hasTemplateExpression]
    ELSE LET char == text[index]
         IN IF char = quote
            THEN [index |-> index, value |-> value, hasNewline |-> hasNewline,
                  hasTemplateExpression |-> hasTemplateExpression]
            ELSE IF escaped
            THEN WalkLiteralEndingAtEscapedQuote(
                   text, quote, index + 1, Append(value, char),
                   hasNewline, hasTemplateExpression, FALSE)
            ELSE IF char = "\\"
            THEN WalkLiteralEndingAtEscapedQuote(
                   text, quote, index + 1, value,
                   hasNewline, hasTemplateExpression, TRUE)
            ELSE WalkLiteralEndingAtEscapedQuote(
                   text, quote, index + 1, Append(value, char),
                   hasNewline \/ char = "\n",
                   \/ hasTemplateExpression
                   \/ /\ quote = Backtick
                      /\ char = "$"
                      /\ index + 1 <= Len(text)
                      /\ text[index + 1] = "{",
                   FALSE)

\* the inner while loop: the locals when it ends
RECURSIVE WalkLiteral(_, _, _, _, _, _, _)
WalkLiteral(text, quote, index, value, hasNewline, hasTemplateExpression, escaped) ==
    IF index > Len(text)
    THEN [index |-> index, value |-> value, hasNewline |-> hasNewline,
          hasTemplateExpression |-> hasTemplateExpression]
    ELSE LET char == text[index]
         IN IF escaped
            THEN WalkLiteral(text, quote, index + 1, Append(value, char),
                             hasNewline, hasTemplateExpression, FALSE)
            ELSE IF char = "\\"
            THEN WalkLiteral(text, quote, index + 1, value,
                             hasNewline, hasTemplateExpression, TRUE)
            ELSE LET template ==
                         \/ hasTemplateExpression
                         \/ /\ quote = Backtick
                            /\ char = "$"
                            /\ index + 1 <= Len(text)
                            /\ text[index + 1] = "{"
                 IN IF char = quote
                    THEN [index |-> index, value |-> value, hasNewline |-> hasNewline,
                          hasTemplateExpression |-> template]
                    ELSE WalkLiteral(text, quote, index + 1, Append(value, char),
                                     hasNewline \/ char = "\n", template, FALSE)

\* the pass without the test for a template expression
KeysAfterMatchKeepingTemplates(text, afterMatch, found) ==
    LET open == SkipWhitespace(text, afterMatch)
    IN IF open > Len(text) \/ ~IsQuote(text[open]) THEN found
       ELSE LET end == WalkLiteral(text, text[open], open + 1, <<>>, FALSE, FALSE, FALSE)
            IN IF end.index > Len(text) THEN found
               ELSE IF end.value = <<>> \/ end.hasNewline
               THEN found
               ELSE IF Includes(found, end.value) THEN found
               ELSE Append(found, end.value)

\* one pass of the outer loop for the match that ends before afterMatch: the
\* keys after it
KeysAfterMatch(text, afterMatch, found) ==
    LET open == SkipWhitespace(text, afterMatch)
    IN IF open > Len(text) \/ ~IsQuote(text[open]) THEN found
       ELSE LET end == WalkLiteral(text, text[open], open + 1, <<>>, FALSE, FALSE, FALSE)
            IN IF end.index > Len(text) THEN found
               ELSE IF end.value = <<>> \/ end.hasNewline \/ end.hasTemplateExpression
               THEN found
               ELSE IF Includes(found, end.value) THEN found
               ELSE Append(found, end.value)

\* an outer loop that goes on behind the place where the walk of the literal
\* ended
RECURSIVE ScanFromBehindLiteral(_, _, _)
ScanFromBehindLiteral(text, from, found) ==
    LET start == NextMatch(text, from)
        open == SkipWhitespace(text, MatchEnd(text, start))
    IN IF start = 0 THEN found
       ELSE ScanFromBehindLiteral(
              text,
              IF open <= Len(text) /\ IsQuote(text[open])
              THEN WalkLiteral(text, text[open], open + 1, <<>>,
                               FALSE, FALSE, FALSE).index + 1
              ELSE MatchEnd(text, start),
              KeysAfterMatch(text, MatchEnd(text, start), found))

\* the outer loop, the regular expression's lastIndex being from
RECURSIVE ScanFrom(_, _, _)
ScanFrom(text, from, found) ==
    LET start == NextMatch(text, from)
    IN IF start = 0 THEN found
       ELSE ScanFrom(text, MatchEnd(text, start),
                     KeysAfterMatch(text, MatchEnd(text, start), found))

extractTrCallsFromFile(text) == ScanFrom(text, 1, <<>>)

-----------------------------------------------------------------------------
(* The universe of the model *)

\* SUPPORTED_LOCALES: the first three of the twenty locales of the source
SUPPORTED_LOCALES == <<"en", "de", "fr">>

CANONICAL_LOCALE == "en"

LocaleSet == {SUPPORTED_LOCALES[i] : i \in 1..Len(SUPPORTED_LOCALES)}

\* the translation keys of the model: the literals of tr("a") and tr("b")
KA == <<"a">>
KB == <<"b">>
AllKeys == {KA, KB}

\* texts a person writes into a locale file: whitespace only, a translation
HandTexts == {<<" ">>, <<"x">>}

\* the keys whose text is edited by hand in the model
EditableKeys == {KB}

\* texts a translator can fill into toTranslate.json: whitespace only, a
\* translation
FillTexts == {<<" ">>, <<"t">>}

\* the versions of the source tree: per file, the keys found in it, in order
\* of first occurrence
SourceVersions ==
    { <<<<>>, <<>>>>,
      <<<<KA>>, <<KA>>>>,
      <<<<KB, KA>>, <<KA>>>> }

-----------------------------------------------------------------------------
(* updateTranslations.js *)

\* a loop that pushes every key of the file
PushNewKeepingDuplicates(allKeys, fileKeys) == allKeys \o fileKeys

\* the loop of extractAllTrKeys over the keys of one file
RECURSIVE PushNew(_, _)
PushNew(allKeys, fileKeys) ==
    IF fileKeys = <<>> THEN allKeys
    ELSE PushNew(IF Includes(allKeys, Head(fileKeys)) THEN allKeys
                 ELSE Append(allKeys, Head(fileKeys)),
                 Tail(fileKeys))

\* the loop of extractAllTrKeys over the source files
RECURSIVE CollectKeys(_, _)
CollectKeys(allKeys, sourceFiles) ==
    IF sourceFiles = <<>> THEN allKeys
    ELSE CollectKeys(PushNew(allKeys, Head(sourceFiles)), Tail(sourceFiles))

extractAllTrKeys(sourceFiles) == SortStrings(CollectKeys(<<>>, sourceFiles))

\* loadTranslationFile of updateTranslations.js: a file that cannot be read is {}
loadTranslationFile(file) == IF file.exists /\ file.valid THEN file.data ELSE <<>>

\* the entries of translations in the order of sortedKeys
EntriesInOrder(translations, sortedKeys) ==
    [i \in 1..Len(sortedKeys) |-> <<sortedKeys[i], Lookup(translations, sortedKeys[i])>>]

\* saveTranslationFile (the same in both scripts): the file written
saveTranslationFile(translations) ==
    FileOf(EntriesInOrder(translations, SortStrings(ObjectKeys(translations))))

\* currentTranslations[key] || fallback
ValueOr(currentTranslations, key, fallback) ==
    IF HasKey(currentTranslations, key) /\ Lookup(currentTranslations, key) # <<>>
    THEN Lookup(currentTranslations, key)
    ELSE fallback

\* a test that takes every text for missing
IsMissingOrBlankAlways(obj, key) == TRUE

\* !existingValue || existingValue.trim() === ""
IsMissingOrBlank(obj, key) ==
    \/ ~HasKey(obj, key)
    \/ Lookup(obj, key) = <<>>
    \/ Trim(Lookup(obj, key)) = <<>>

\* the loop body with the test of existingKeys inverted
UpdatedValueInverted(locale, key, currentTranslations, existingKeys) ==
    IF ~Includes(existingKeys, key)
    THEN IF locale = CANONICAL_LOCALE
         THEN ValueOr(currentTranslations, key, key)
         ELSE ValueOr(currentTranslations, key, <<>>)
    ELSE IF locale = CANONICAL_LOCALE THEN key ELSE <<>>

\* updatedTranslations[key] as the loop body of main assigns it
UpdatedValue(locale, key, currentTranslations, existingKeys) ==
    IF Includes(existingKeys, key)
    THEN IF locale = CANONICAL_LOCALE
         THEN ValueOr(currentTranslations, key, key)
         ELSE ValueOr(currentTranslations, key, <<>>)
    ELSE IF locale = CANONICAL_LOCALE THEN key ELSE <<>>

\* a loop body that lists only the new keys for translation
AddsToTranslateNewOnly(locale, key, currentTranslations, existingKeys) ==
    /\ locale # CANONICAL_LOCALE
    /\ ~Includes(existingKeys, key)

\* whether the loop body of main sets toTranslate[locale][key] = ""
AddsToTranslate(locale, key, currentTranslations, existingKeys) ==
    /\ locale # CANONICAL_LOCALE
    /\ IF Includes(existingKeys, key)
       THEN IsMissingOrBlank(currentTranslations, key)
       ELSE TRUE

\* a rebuild that patches currentTranslations in place: the keys no longer in
\* the source stay
UpdatedTranslationsKeepingOrphans(locale, currentTranslations, extractedKeys, existingKeys) ==
    LET IsOrphan(entry) == ~Includes(extractedKeys, entry[1])
    IN [i \in 1..Len(extractedKeys) |->
           <<extractedKeys[i],
             UpdatedValue(locale, extractedKeys[i], currentTranslations, existingKeys)>>]
       \o SelectSeq(currentTranslations, IsOrphan)

\* updatedTranslations of one locale after the loop over extractedKeys
UpdatedTranslations(locale, currentTranslations, extractedKeys, existingKeys) ==
    [i \in 1..Len(extractedKeys) |->
        <<extractedKeys[i],
          UpdatedValue(locale, extractedKeys[i], currentTranslations, existingKeys)>>]

\* toTranslate[locale] after the loop over extractedKeys (<<>>: never created)
RECURSIVE ToTranslateSection(_, _, _, _)
ToTranslateSection(locale, currentTranslations, extractedKeys, existingKeys) ==
    IF extractedKeys = <<>> THEN <<>>
    ELSE (IF AddsToTranslate(locale, Head(extractedKeys), currentTranslations, existingKeys)
          THEN <<<<Head(extractedKeys), <<>>>>>>
          ELSE <<>>)
         \o ToTranslateSection(locale, currentTranslations, Tail(extractedKeys),
                               existingKeys)

\* toTranslate after the loop over the locales
RECURSIVE AssembleToTranslate(_, _, _, _)
AssembleToTranslate(locales, files0, extractedKeys, existingKeys) ==
    IF locales = <<>> THEN <<>>
    ELSE LET locale == Head(locales)
             section == ToTranslateSection(locale, loadTranslationFile(files0[locale]),
                                           extractedKeys, existingKeys)
         IN (IF section = <<>> THEN <<>> ELSE <<<<locale, section>>>>)
            \o AssembleToTranslate(Tail(locales), files0, extractedKeys, existingKeys)

\* a step 5 that never writes toTranslate.json
WriteToTranslateNever(assembled, old) == old

\* step 5 of main: toTranslate.json after the run
WriteToTranslate(assembled, old) ==
    IF Len(assembled) > 0 THEN FileOf(assembled) ELSE old

\* the round trip starts again, where it is followed
TripReset == IF trip = "off" THEN "off" ELSE "none"

\* main of updateTranslations.js, one whole run
Sync ==
    /\ runs < MaxRuns
    /\ LET extractedKeys == extractAllTrKeys(files)
           canonicalTranslations == loadTranslationFile(stores[CANONICAL_LOCALE])
           existingKeys == ObjectKeys(canonicalTranslations)
           assembled == AssembleToTranslate(SUPPORTED_LOCALES, stores,
                                            extractedKeys, existingKeys)
       IN /\ stores' = [locale \in LocaleSet |->
                          saveTranslationFile(
                            UpdatedTranslations(locale, loadTranslationFile(stores[locale]),
                                                extractedKeys, existingKeys))]
          /\ toTranslate' = assembled
          /\ batch' = WriteToTranslate(assembled, batch)
    /\ prior' = stores
    /\ priorBatch' = batch
    /\ repeated' = (lastOp = "sync")
    /\ lastOp' = "sync"
    /\ status' = "ok"
    /\ cut' = (IF lastOp = "cut" THEN cut ELSE 0)
    /\ trip' = (IF trip = "merged" THEN "closed"
                ELSE IF trip # "off" /\ Len(toTranslate') > 0 THEN "written"
                ELSE TripReset)
    /\ reported' = <<>>
    /\ writeFailed' = {}
    /\ runs' = runs + 1
    /\ UNCHANGED <<files, edits, scanVars>>

\* the locale files when main is stopped after the first n passes of the loop
\* over SUPPORTED_LOCALES
PersistedPrefix(n, files0, extractedKeys, existingKeys) ==
    [locale \in LocaleSet |->
        IF \E i \in 1..n : SUPPORTED_LOCALES[i] = locale
        THEN saveTranslationFile(
               UpdatedTranslations(locale, loadTranslationFile(files0[locale]),
                                   extractedKeys, existingKeys))
        ELSE files0[locale]]

\* main of updateTranslations.js, stopped from outside after it has saved the
\* files of some locales and before step 5
SyncInterrupted ==
    /\ runs < MaxRuns
    /\ LET extractedKeys == extractAllTrKeys(files)
           canonicalTranslations == loadTranslationFile(stores[CANONICAL_LOCALE])
           existingKeys == ObjectKeys(canonicalTranslations)
       IN \E n \in 1..Len(SUPPORTED_LOCALES) :
            /\ stores' = PersistedPrefix(n, stores, extractedKeys, existingKeys)
            /\ cut' = n
    /\ toTranslate' = <<>>
    /\ prior' = stores
    /\ priorBatch' = batch
    /\ repeated' = FALSE
    /\ lastOp' = "cut"
    /\ trip' = TripReset
    /\ status' = "cut"
    /\ reported' = <<>>
    /\ writeFailed' = {}
    /\ runs' = runs + 1
    /\ UNCHANGED <<files, batch, edits, scanVars>>

-----------------------------------------------------------------------------
(* mergeTranslations.js *)

\* loadTranslationFile of mergeTranslations.js throws for a file it cannot read
LoadThrows(file) == ~file.exists \/ ~file.valid

\* the test without the trim
IsBlankUntrimmed(value) == value = <<>>

\* !value || value.trim() === ""
IsBlank(value) == value = <<>> \/ Trim(value) = <<>>

\* a section of the batch that is no object: a string, a number or null
NonObject == <<<<<<"NOT_AN_OBJECT">>, <<"NOT_AN_OBJECT">>>>>>

\* typeof translations === "object" && translations !== null
IsObject(translations) == translations # NonObject

\* a list of one text: for Object.entries and typeof it is the object whose
\* keys are the indices
ListOf(text) == <<<<<<"0">>, text>>>>

\* a value that is truthy and no string, such as a number
NotAString == <<"NOT_A_STRING">>

\* the filter of the validation loop throws: value.trim is not a function
FilterThrows(translations) ==
    \E j \in 1..Len(translations) : translations[j][2] = NotAString

\* how the validation loop ends: at process.exit(1) for a section that is no
\* object, by the TypeError of the filter, or after the last locale
RECURSIVE ValidationEnd(_)
ValidationEnd(toTranslateData) ==
    IF toTranslateData = <<>> THEN "checked"
    ELSE IF ~IsObject(Head(toTranslateData)[2]) THEN "invalid"
    ELSE IF FilterThrows(Head(toTranslateData)[2]) THEN "crashed"
    ELSE ValidationEnd(Tail(toTranslateData))

\* the characters of a locale code
LocaleChars(locale) ==
    IF locale = "en" THEN <<"e", "n">>
    ELSE IF locale = "de" THEN <<"d", "e">>
    ELSE <<"f", "r">>

\* `${locale}: "${key}"`
ReportItem(locale, key) ==
    LocaleChars(locale) \o <<":", " ", "\"">> \o key \o <<"\"">>

\* emptyTranslations of one locale, as `locale: "key"` items
RECURSIVE EmptyTranslations(_, _)
EmptyTranslations(locale, translations) ==
    IF translations = <<>> THEN <<>>
    ELSE (IF IsBlank(Head(translations)[2])
          THEN <<ReportItem(locale, Head(translations)[1])>>
          ELSE <<>>)
         \o EmptyTranslations(locale, Tail(translations))

\* a report that lists the first locale of the batch only
AllEmptyTranslationsOfFirst(toTranslateData) ==
    IF toTranslateData = <<>> THEN <<>>
    ELSE EmptyTranslations(Head(toTranslateData)[1], Head(toTranslateData)[2])

\* allEmptyTranslations after the validation loop
RECURSIVE AllEmptyTranslations(_)
AllEmptyTranslations(toTranslateData) ==
    IF toTranslateData = <<>> THEN <<>>
    ELSE EmptyTranslations(Head(toTranslateData)[1], Head(toTranslateData)[2])
         \o AllEmptyTranslations(Tail(toTranslateData))

\* a merge that replaces the locale's object by the batch's section
MergeIntoReplacing(currentTranslations, newTranslations) == newTranslations

\* currentTranslations after the inner merge loop
RECURSIVE MergeInto(_, _)
MergeInto(currentTranslations, newTranslations) ==
    IF newTranslations = <<>> THEN currentTranslations
    ELSE LET key == Head(newTranslations)[1]
             value == Head(newTranslations)[2]
         IN MergeInto(IF ~IsBlank(value)
                      THEN SetProp(currentTranslations, key, value)
                      ELSE currentTranslations,
                      Tail(newTranslations))

\* mergedCount after the inner merge loop
RECURSIVE MergedCount(_)
MergedCount(newTranslations) ==
    IF newTranslations = <<>> THEN 0
    ELSE (IF ~IsBlank(Head(newTranslations)[2]) THEN 1 ELSE 0)
         + MergedCount(Tail(newTranslations))

\* the locale file after the try block of the merge loop for one locale;
\* saveThrows: writeFileSync fails for this file
MergeLocale(file, newTranslations, saveThrows) ==
    IF LoadThrows(file) \/ saveThrows THEN file
    ELSE saveTranslationFile(MergeInto(file.data, newTranslations))

\* a merge loop that ends at the first locale whose load or save throws
RECURSIVE MergeLoopStoppingAtFailure(_, _, _)
MergeLoopStoppingAtFailure(toTranslateData, files0, saveFails) ==
    IF toTranslateData = <<>> THEN files0
    ELSE LET locale == Head(toTranslateData)[1]
         IN IF LoadThrows(files0[locale]) \/ locale \in saveFails THEN files0
            ELSE MergeLoopStoppingAtFailure(
                   Tail(toTranslateData),
                   [files0 EXCEPT ![locale] =
                      MergeLocale(files0[locale], Head(toTranslateData)[2], FALSE)],
                   saveFails)

\* the locale files after the merge loop
RECURSIVE MergeLoop(_, _, _)
MergeLoop(toTranslateData, files0, saveFails) ==
    IF toTranslateData = <<>> THEN files0
    ELSE LET locale == Head(toTranslateData)[1]
         IN MergeLoop(Tail(toTranslateData),
                      [files0 EXCEPT ![locale] =
                         MergeLocale(files0[locale], Head(toTranslateData)[2],
                                     locale \in saveFails)],
                      saveFails)

\* totalMerged after the merge loop; saveFails: the locales whose file cannot
\* be written
RECURSIVE TotalMerged(_, _, _)
TotalMerged(toTranslateData, files0, saveFails) ==
    IF toTranslateData = <<>> THEN 0
    ELSE (IF \/ LoadThrows(files0[Head(toTranslateData)[1]])
             \/ Head(toTranslateData)[1] \in saveFails
          THEN 0
          ELSE MergedCount(Head(toTranslateData)[2]))
         + TotalMerged(Tail(toTranslateData), files0, saveFails)

\* a run that always deletes toTranslate.json after the merge loop
RetireBatchAlways(totalMerged, file) == Absent

\* toTranslate.json after the merge loop
RetireBatch(totalMerged, file) == IF totalMerged > 0 THEN Absent ELSE file

\* the run ends with a non-zero exit status: process.exit(1) or the uncaught
\* TypeError
ExitsNonZero(st) == st \in {"nobatch", "unparsable", "invalid", "crashed", "rejected"}

\* the locales of the batch whose file the merge loop gets to write
WrittenLocales(toTranslateData, files0) ==
    {locale \in LocaleSet :
        HasKey(toTranslateData, locale) /\ ~LoadThrows(files0[locale])}

\* a run that never finds toTranslate.json missing
NoBatchNever(file) == FALSE

\* !fs.existsSync(toTranslatePath)
NoBatch(file) == ~file.exists

\* main of mergeTranslations.js, one whole run
Merge ==
    /\ runs < MaxRuns
    /\ IF NoBatch(batch)
       THEN /\ status' = "nobatch"
            /\ reported' = <<>>
            /\ writeFailed' = {}
            /\ UNCHANGED <<stores, batch>>
       ELSE IF ~batch.valid
       THEN /\ status' = "unparsable"
            /\ reported' = <<>>
            /\ writeFailed' = {}
            /\ UNCHANGED <<stores, batch>>
       ELSE IF ValidationEnd(batch.data) # "checked"
       THEN /\ status' = ValidationEnd(batch.data)
            /\ reported' = <<>>
            /\ writeFailed' = {}
            /\ UNCHANGED <<stores, batch>>
       ELSE IF Len(AllEmptyTranslations(batch.data)) > 0
       THEN /\ status' = "rejected"
            /\ reported' = AllEmptyTranslations(batch.data)
            /\ writeFailed' = {}
            /\ UNCHANGED <<stores, batch>>
       ELSE \E saveFails \in SUBSET WrittenLocales(batch.data, stores) :
            LET totalMerged == TotalMerged(batch.data, stores, saveFails)
            IN /\ stores' = MergeLoop(batch.data, stores, saveFails)
               /\ batch' = RetireBatch(totalMerged, batch)
               /\ status' = IF totalMerged > 0 THEN "merged" ELSE "nothing"
               /\ reported' = <<>>
               /\ writeFailed' = saveFails
    /\ prior' = stores
    /\ priorBatch' = batch
    /\ repeated' = (lastOp = "merge")
    /\ lastOp' = "merge"
    /\ cut' = 0
    /\ trip' = (IF /\ trip = "written"
                   /\ status' = "merged"
                   /\ writeFailed' = {}
                   /\ \A i \in 1..Len(batch.data) : ~LoadThrows(stores[batch.data[i][1]])
                THEN "merged" ELSE TripReset)
    /\ runs' = runs + 1
    /\ toTranslate' = <<>>
    /\ UNCHANGED <<files, edits, scanVars>>

-----------------------------------------------------------------------------
(* What happens between the runs *)

\* the developer changes the sources
ChangeSource ==
    /\ runs < MaxRuns
    /\ \E v \in SourceVersions : v # files /\ files' = v
    /\ repeated' = FALSE
    /\ lastOp' = "source"
    /\ prior' = stores
    /\ priorBatch' = batch
    /\ toTranslate' = <<>>
    /\ status' = "none"
    /\ cut' = 0
    /\ trip' = TripReset
    /\ reported' = <<>>
    /\ writeFailed' = {}
    /\ UNCHANGED <<stores, batch, edits, runs, scanVars>>

\* the translator fills one text of toTranslate.json
FillBatch ==
    /\ runs < MaxRuns
    /\ batch.exists
    /\ \E i \in 1..Len(batch.data) :
         \E j \in 1..Len(batch.data[i][2]) :
           \E t \in FillTexts :
             /\ IsObject(batch.data[i][2])
             /\ batch.data[i][2][j][2] # t
             /\ batch' = FileOf([batch.data EXCEPT ![i][2][j][2] = t])
    /\ repeated' = FALSE
    /\ lastOp' = "fill"
    /\ prior' = stores
    /\ priorBatch' = batch'
    /\ toTranslate' = <<>>
    /\ status' = "none"
    /\ cut' = 0
    /\ trip' = trip
    /\ reported' = <<>>
    /\ writeFailed' = {}
    /\ UNCHANGED <<files, stores, edits, runs, scanVars>>

\* somebody edits a locale file by hand: sets one text (a new key goes first,
\* a missing file is created)
EditStore ==
    /\ runs < MaxRuns
    /\ edits < MaxEdits
    /\ \E locale \in LocaleSet, key \in EditableKeys, t \in HandTexts :
         LET old == stores[locale].data
         IN /\ ~(HasKey(old, key) /\ Lookup(old, key) = t)
            /\ stores' = [stores EXCEPT ![locale] =
                            FileOf(IF HasKey(old, key) THEN SetProp(old, key, t)
                                   ELSE <<<<key, t>>>> \o old)]
    /\ edits' = edits + 1
    /\ repeated' = FALSE
    /\ lastOp' = "edit"
    /\ prior' = stores'
    /\ priorBatch' = batch
    /\ toTranslate' = <<>>
    /\ status' = "none"
    /\ cut' = 0
    /\ trip' = TripReset
    /\ reported' = <<>>
    /\ writeFailed' = {}
    /\ UNCHANGED <<files, batch, runs, scanVars>>

\* somebody deletes a locale file
DeleteStore ==
    /\ runs < MaxRuns
    /\ edits < MaxEdits
    /\ \E locale \in LocaleSet :
         /\ stores[locale].exists
         /\ stores' = [stores EXCEPT ![locale] = Absent]
    /\ edits' = edits + 1
    /\ repeated' = FALSE
    /\ lastOp' = "edit"
    /\ prior' = stores'
    /\ priorBatch' = batch
    /\ toTranslate' = <<>>
    /\ status' = "none"
    /\ cut' = 0
    /\ trip' = TripReset
    /\ reported' = <<>>
    /\ writeFailed' = {}
    /\ UNCHANGED <<files, batch, runs, scanVars>>

\* somebody leaves a locale file with a text that is not JSON
GarbleStore ==
    /\ runs < MaxRuns
    /\ edits < MaxEdits
    /\ \E locale \in LocaleSet :
         /\ stores[locale].exists
         /\ stores[locale].valid
         /\ stores' = [stores EXCEPT ![locale] = Garbled]
    /\ edits' = edits + 1
    /\ repeated' = FALSE
    /\ lastOp' = "edit"
    /\ prior' = stores'
    /\ priorBatch' = batch
    /\ toTranslate' = <<>>
    /\ status' = "none"
    /\ cut' = 0
    /\ trip' = TripReset
    /\ reported' = <<>>
    /\ writeFailed' = {}
    /\ UNCHANGED <<files, batch, runs, scanVars>>

\* somebody leaves toTranslate.json malformed: with a text that is not JSON,
\* with a section that is a list of one text or no object at all, or with a
\* value that is no string
DamageBatch ==
    /\ runs < MaxRuns
    /\ edits < MaxEdits
    /\ batch.exists
    /\ batch.valid
    /\ \/ batch' = Garbled
       \/ \E i \in 1..Len(batch.data) :
            \E section \in {NonObject, ListOf(<<"t">>)} :
              batch' = FileOf([batch.data EXCEPT ![i][2] = section])
       \/ \E i \in 1..Len(batch.data) :
            \E j \in 1..Len(batch.data[i][2]) :
              batch' = FileOf([batch.data EXCEPT ![i][2][j][2] = NotAString])
    /\ edits' = edits + 1
    /\ repeated' = FALSE
    /\ lastOp' = "edit"
    /\ prior' = stores
    /\ priorBatch' = batch'
    /\ toTranslate' = <<>>
    /\ status' = "none"
    /\ cut' = 0
    /\ trip' = TripReset
    /\ reported' = <<>>
    /\ writeFailed' = {}
    /\ UNCHANGED <<files, stores, runs, scanVars>>

-----------------------------------------------------------------------------
(* The specification of the two scripts and their surroundings *)

Init ==
    /\ files = <<<<>>, <<>>>>
    /\ stores = [locale \in LocaleSet |-> Absent]
    /\ batch = Absent
    /\ toTranslate = <<>>
    /\ prior = [locale \in LocaleSet |-> Absent]
    /\ priorBatch = Absent
    /\ lastOp = "init"
    /\ repeated = FALSE
    /\ status = "none"
    /\ cut = 0
    /\ trip = "off"
    /\ reported = <<>>
    /\ writeFailed = {}
    /\ edits = 0
    /\ runs = 0
    /\ content = <<>>
    /\ keys = <<>>
    /\ scanned = FALSE
    /\ lastIndex = 0
    /\ walkIndex = 0
    /\ walk = NoWalk

Next ==
    \/ Sync
    \/ Merge
    \/ ChangeSource
    \/ FillBatch
    \/ EditStore
    \/ DeleteStore
    \/ GarbleStore
    \/ DamageBatch

Spec == Init /\ [][Next]_vars

-----------------------------------------------------------------------------
(* Properties of the synchronization run *)

SeqSet(arr) == {arr[i] : i \in 1..Len(arr)}

\* the keys that occur in some source file
SourceKeySet == UNION {SeqSet(files[i]) : i \in 1..Len(files)}

NonCanonical == LocaleSet \ {CANONICAL_LOCALE}

\* the text of key in a locale file, for a key the file has
TextIn(file, key) == Lookup(file.data, key)

\* C1: after a synchronization run every locale file exists and holds exactly
\* the keys found in the source, each once: keys gone from the source are
\* dropped, none is missing, whether or not the file existed before.
SyncStoresHoldSourceKeys ==
    lastOp = "sync" =>
        \A locale \in LocaleSet :
            /\ stores[locale].exists
            /\ KeySet(stores[locale].data) = SourceKeySet
            /\ Len(stores[locale].data) = Cardinality(SourceKeySet)

\* C1 witness: a run that dropped a key from a file, added a key to another
\* and created a file that did not exist.
SyncDroppedAndAddedKeys ==
    /\ lastOp = "sync"
    /\ SourceKeySet # {}
    /\ \E locale \in LocaleSet : KeySet(prior[locale].data) \ SourceKeySet # {}
    /\ \E locale \in LocaleSet :
         prior[locale].exists /\ SourceKeySet \ KeySet(prior[locale].data) # {}
    /\ \E locale \in LocaleSet : ~prior[locale].exists

\* C2: after a synchronization run, every key of the source that the locale's
\* own file held before the run keeps the text it had there, whatever the
\* canonical file held.
SyncCarriesPriorText ==
    lastOp = "sync" =>
        \A locale \in LocaleSet : \A key \in SourceKeySet :
            (prior[locale].exists /\ HasKey(prior[locale].data, key)) =>
                /\ HasKey(stores[locale].data, key)
                /\ TextIn(stores[locale], key) = TextIn(prior[locale], key)

\* C4: a synchronization run that directly follows another one, nothing having
\* changed in between, writes every locale file exactly as the first run left
\* it (same keys, same texts, same order), and that order is lexicographic.
SyncTwiceWritesTheSame ==
    (lastOp = "sync" /\ repeated) =>
        /\ stores = prior
        /\ \A locale \in LocaleSet : IsSorted(ObjectKeys(stores[locale].data))

\* C4 witness: a second consecutive run over files that hold a kept
\* translation and an empty text.
SyncTwiceWithTexts ==
    /\ lastOp = "sync"
    /\ repeated
    /\ \E locale \in NonCanonical : \E key \in SourceKeySet :
         HasKey(stores[locale].data, key) /\ ~IsBlank(TextIn(stores[locale], key))
    /\ \E locale \in NonCanonical : \E key \in SourceKeySet :
         HasKey(stores[locale].data, key) /\ TextIn(stores[locale], key) = <<>>

\* C5: after a synchronization run the canonical file maps every key to itself.
SyncCanonicalIsIdentity ==
    lastOp = "sync" =>
        \A i \in 1..Len(stores[CANONICAL_LOCALE].data) :
            stores[CANONICAL_LOCALE].data[i][2] = stores[CANONICAL_LOCALE].data[i][1]

\* whether the assembled batch lists key for locale
Listed(locale, key) ==
    HasKey(toTranslate, locale) /\ HasKey(Lookup(toTranslate, locale), key)

\* the shape every assembled batch has: no canonical section, no empty
\* section, every listed text empty
BatchShape ==
    /\ ~HasKey(toTranslate, CANONICAL_LOCALE)
    /\ \A i \in 1..Len(toTranslate) :
         /\ toTranslate[i][1] \in NonCanonical
         /\ Len(toTranslate[i][2]) > 0
         /\ \A j \in 1..Len(toTranslate[i][2]) : toTranslate[i][2][j][2] = <<>>

\* C6 as stated: the batch a synchronization run assembles lists, for each
\* non-canonical locale, exactly the keys whose text in the rebuilt file is
\* empty.
SyncBatchListsEmptyTexts ==
    lastOp = "sync" =>
        /\ BatchShape
        /\ \A locale \in NonCanonical : \A key \in AllKeys :
             Listed(locale, key) <=>
                 (HasKey(stores[locale].data, key) /\ TextIn(stores[locale], key) = <<>>)

\* C6 amended: the batch a synchronization run assembles lists, for each
\* non-canonical locale, exactly the keys whose text in the rebuilt file is
\* empty or only whitespace, each with empty text; no section is empty and the
\* canonical locale has none; and what is written to toTranslate.json, when the
\* batch is not empty, is that batch.
SyncBatchListsBlankTexts ==
    lastOp = "sync" =>
        /\ BatchShape
        /\ \A locale \in NonCanonical : \A key \in AllKeys :
             Listed(locale, key) <=>
                 (HasKey(stores[locale].data, key)
                  /\ Trim(TextIn(stores[locale], key)) = <<>>)
        /\ (toTranslate # <<>> => batch = FileOf(toTranslate))

\* C6 witness: a run whose batch lists a whitespace-only text kept in a file
\* and an empty text, the canonical file holding the key itself.
SyncListedWhitespaceText ==
    /\ lastOp = "sync"
    /\ \E locale \in NonCanonical : \E key \in SourceKeySet :
         /\ Listed(locale, key)
         /\ TextIn(stores[locale], key) = <<" ">>
    /\ \E locale \in NonCanonical : \E key \in SourceKeySet :
         /\ Listed(locale, key)
         /\ TextIn(stores[locale], key) = <<>>
         /\ TextIn(stores[CANONICAL_LOCALE], key) = key

\* C7: after a synchronization run that assembled an empty batch there is no
\* toTranslate.json.
SyncLeavesNoStaleBatch ==
    (lastOp = "sync" /\ toTranslate = <<>>) => ~batch.exists

-----------------------------------------------------------------------------
(* Properties of the merge run *)

\* some text of the batch is empty or only whitespace
HasBlankEntry(data) ==
    \E i \in 1..Len(data) : \E j \in 1..Len(data[i][2]) :
        Trim(data[i][2][j][2]) = <<>>

\* the last step was a merge run whose batch passed the validation
MergedValidBatch == lastOp = "merge" /\ status \in {"merged", "nothing"}

\* the section is a list
IsList(translations) ==
    Len(translations) = 1 /\ translations = ListOf(translations[1][2])

\* the batch maps locales to objects of texts
WellFormed(data) ==
    \A i \in 1..Len(data) :
        /\ IsObject(data[i][2])
        /\ ~IsList(data[i][2])
        /\ \A j \in 1..Len(data[i][2]) : data[i][2][j][2] # NotAString

\* before the last step every locale file that was there held JSON
PriorStoresDecode == \A locale \in LocaleSet : prior[locale].exists => prior[locale].valid

\* C3: a merge run over a batch with a blank text changes no locale file and
\* leaves toTranslate.json as it was.
MergeRejectsBlankBatch ==
    (lastOp = "merge" /\ priorBatch.exists /\ HasBlankEntry(priorBatch.data)) =>
        /\ stores = prior
        /\ batch = priorBatch
        /\ ExitsNonZero(status)

\* C3 witness: a rejected batch with one locale filled completely and a
\* whitespace-only text in another.
MergeRejectedPartlyFilled ==
    /\ lastOp = "merge"
    /\ status = "rejected"
    /\ priorBatch.exists
    /\ \E i \in 1..Len(priorBatch.data) :
         \A j \in 1..Len(priorBatch.data[i][2]) :
             Trim(priorBatch.data[i][2][j][2]) # <<>>
    /\ \E i \in 1..Len(priorBatch.data) :
         \E j \in 1..Len(priorBatch.data[i][2]) :
             priorBatch.data[i][2][j][2] = <<" ">>

\* the mapping m with the entries of section written over it
Overwritten(m, section) ==
    [key \in DOMAIN m \cup KeySet(section) |->
        IF HasKey(section, key) THEN Lookup(section, key) ELSE m[key]]

\* C8: after the merge of a valid batch, with every locale file that is there
\* readable and writable, the file of every locale of the batch holds what it
\* held before with the batch's texts written over it (a missing file counting
\* as empty), and every other locale file is as it was.
MergeOverwritesBatchKeysOnly ==
    (/\ MergedValidBatch
     /\ WellFormed(priorBatch.data)
     /\ PriorStoresDecode
     /\ writeFailed = {}) =>
        \A locale \in LocaleSet :
            IF HasKey(priorBatch.data, locale)
            THEN /\ stores[locale].exists
                 /\ AsMap(stores[locale].data)
                      = Overwritten(AsMap(prior[locale].data),
                                    Lookup(priorBatch.data, locale))
            ELSE stores[locale] = prior[locale]

\* C9: the merge of a valid batch drops no key from any locale file.
MergeKeepsEveryKey ==
    MergedValidBatch =>
        \A locale \in LocaleSet :
            KeySet(prior[locale].data) \subseteq KeySet(stores[locale].data)

\* C9 witness: a merge that wrote a locale file which held a key the batch
\* does not name.
MergeKeptUnnamedKey ==
    /\ MergedValidBatch
    /\ \E locale \in LocaleSet :
         /\ HasKey(priorBatch.data, locale)
         /\ stores[locale] # prior[locale]
         /\ KeySet(prior[locale].data) \ KeySet(Lookup(priorBatch.data, locale)) # {}

-----------------------------------------------------------------------------
(* The specification of the scanner: any text, then one scan *)

\* the pieces the scanned texts are made of: the call token and single
\* characters
ScanAtoms ==
    { <<"t", "r", "(">>, <<"\"">>, <<"'">>, <<Backtick>>, <<"\\">>, <<"\n">>,
      <<"$">>, <<"{">>, <<" ">>, <<"a">> }

\* the number of pieces a text is made of
PieceCount(text) ==
    Len(text) - 2 * Cardinality({i \in 1..Len(text) : text[i] = "("})

ScanInit ==
    /\ content = <<>>
    /\ keys = <<>>
    /\ scanned = FALSE
    /\ lastIndex = 0
    /\ walkIndex = 0
    /\ walk = NoWalk
    /\ files = <<<<>>, <<>>>>
    /\ stores = [locale \in LocaleSet |-> Absent]
    /\ batch = Absent
    /\ toTranslate = <<>>
    /\ prior = [locale \in LocaleSet |-> Absent]
    /\ priorBatch = Absent
    /\ lastOp = "init"
    /\ repeated = FALSE
    /\ status = "none"
    /\ cut = 0
    /\ trip = "off"
    /\ reported = <<>>
    /\ writeFailed = {}
    /\ edits = 0
    /\ runs = 0

\* the text grows by one piece
Write ==
    /\ ~scanned
    /\ PieceCount(content) < MaxAtoms
    /\ \E piece \in ScanAtoms : content' = content \o piece
    /\ UNCHANGED <<keys, scanned, stepVars, syncVars>>

\* extractTrCallsFromFile on the text
Scan ==
    /\ ~scanned
    /\ keys' = extractTrCallsFromFile(content)
    /\ scanned' = TRUE
    /\ UNCHANGED <<content, stepVars, syncVars>>

ScanNext ==
    \/ Write
    \/ Scan

SpecScan == ScanInit /\ [][ScanNext]_vars

\* C10: no key the scanner returns holds a newline character, also when the
\* newline follows a backslash in the literal.
ScanKeysHoldNoNewline ==
    scanned => \A i \in 1..Len(keys) : \A j \in 1..Len(keys[i]) : keys[i][j] # "\n"

-----------------------------------------------------------------------------
(* What a literal is, told from the text alone *)

\* the number of backslashes that stand in a row right before position p,
\* inside the literal opened at open
RECURSIVE BackslashRun(_, _, _)
BackslashRun(text, open, p) ==
    IF p - 1 > open /\ text[p - 1] = "\\"
    THEN 1 + BackslashRun(text, open, p - 1)
    ELSE 0

\* the character at p is not escaped by a backslash
Unescaped(text, open, p) == BackslashRun(text, open, p) % 2 = 0

\* the position of the quote that closes the literal opened at open, or 0
ClosingQuote(text, open) ==
    LET closers == {p \in (open + 1)..Len(text) :
                      text[p] = text[open] /\ Unescaped(text, open, p)}
    IN IF closers = {} THEN 0
       ELSE CHOOSE p \in closers : \A q \in closers : p <= q

\* an unescaped $ right before a { between the quotes
HasTemplateMarker(text, open, close) ==
    \E p \in (open + 1)..(close - 1) :
        /\ text[p] = "$"
        /\ Unescaped(text, open, p)
        /\ text[p + 1] = "{"

\* the characters from position from up to the closing quote, the escaping
\* backslashes left out
RECURSIVE Decoded(_, _, _, _)
Decoded(text, open, from, close) ==
    IF from >= close THEN <<>>
    ELSE (IF text[from] = "\\" /\ Unescaped(text, open, from) THEN <<>>
          ELSE <<text[from]>>)
         \o Decoded(text, open, from + 1, close)

\* the three characters that open and close a literal
QuoteDelimiters == {"\"", "'", Backtick}

\* the positions at which a tr( token starts
CallTokens(text) == {start \in 1..Len(text) : MatchEnd(text, start) > 0}

\* the position of the first character after the token that is no whitespace
OpenOf(text, start) == SkipWhitespace(text, MatchEnd(text, start))

\* the positions of the quotes that open the first argument of a tr( call
CallOpens(text) ==
    {open \in 1..Len(text) :
        /\ text[open] \in QuoteDelimiters
        /\ \E start \in CallTokens(text) : OpenOf(text, start) = open}

\* the literal opened at open is a backtick literal with a template marker
IsTemplateLiteral(text, open) ==
    /\ text[open] = Backtick
    /\ ClosingQuote(text, open) > 0
    /\ HasTemplateMarker(text, open, ClosingQuote(text, open))

\* C11: no key the scanner returns is empty, and every key is the text of a
\* closed literal of some tr( call that is not a backtick literal holding an
\* unescaped $ right before a {.
ScanKeysNotEmptyNorTemplate ==
    scanned =>
      \A i \in 1..Len(keys) :
        /\ keys[i] # <<>>
        /\ \E open \in CallOpens(content) :
              /\ ClosingQuote(content, open) > 0
              /\ Decoded(content, open, open + 1, ClosingQuote(content, open)) = keys[i]
              /\ ~IsTemplateLiteral(content, open)

\* C11 witness: a scanned text with a call on a backtick literal that holds
\* the marker, and no key returned.
ScanDroppedTemplateLiteral ==
    /\ scanned
    /\ keys = <<>>
    /\ \E open \in CallOpens(content) : IsTemplateLiteral(content, open)

-----------------------------------------------------------------------------
(* The merge run and the state of toTranslate.json *)

\* C12: a merge run that finds no toTranslate.json ends with the
\* nothing-to-merge error and a non-zero status, and changes no locale file;
\* so does a merge run that follows a merge run which deleted the batch.
MergeWithoutBatchChangesNothing ==
    (lastOp = "merge" /\ ~priorBatch.exists) =>
        /\ status = "nobatch"
        /\ ExitsNonZero(status)
        /\ stores = prior
        /\ ~batch.exists

\* C12 witness: a merge run right after the merge run that wrote a text and
\* deleted the batch.
MergeAgainAfterMerge ==
    /\ lastOp = "merge"
    /\ repeated
    /\ ~priorBatch.exists
    /\ \E locale \in LocaleSet :
         \E i \in 1..Len(stores[locale].data) : stores[locale].data[i][2] = <<"t">>

\* toTranslate.json was there before the last step and was malformed: no JSON,
\* or not a mapping from locales to objects of texts
PriorBatchMalformed ==
    /\ priorBatch.exists
    /\ ~priorBatch.valid \/ ~WellFormed(priorBatch.data)

\* C13: a merge run over a malformed toTranslate.json ends with a non-zero
\* status, changes no locale file and leaves toTranslate.json in place.
MergeRejectsMalformedBatch ==
    (lastOp = "merge" /\ PriorBatchMalformed) =>
        /\ ExitsNonZero(status)
        /\ stores = prior
        /\ batch = priorBatch

-----------------------------------------------------------------------------
(* The synchronization run and locale files that do not decode *)

\* C14: a synchronization run that finds a locale file that is there but is
\* no JSON aborts and writes no locale file and no toTranslate.json; a run
\* that finds locale files missing, and none undecodable, goes on and writes
\* every locale file.
SyncAbortsOnUndecodableStore ==
    lastOp = "sync" =>
        IF \E locale \in LocaleSet : prior[locale] = Garbled
        THEN /\ status # "ok"
             /\ stores = prior
             /\ batch = priorBatch
        ELSE /\ status = "ok"
             /\ \A locale \in LocaleSet : stores[locale].exists /\ stores[locale].valid

-----------------------------------------------------------------------------
(* The merge loop and the locale files it cannot load or save *)

\* the merge run could not decode or could not write the file of the locale
FailedLocale(locale) ==
    (prior[locale].exists /\ ~prior[locale].valid) \/ locale \in writeFailed

\* C15: after the merge of a batch that passed the validation, the file of a
\* batch locale that could not be decoded or written is as it was, and the
\* file of every other batch locale that was there holds what it held with
\* the batch's texts written over it, wherever the failing locale stands in
\* the batch.
MergeIsolatesFailingLocale ==
    MergedValidBatch =>
        \A i \in 1..Len(priorBatch.data) :
            LET locale == priorBatch.data[i][1]
            IN prior[locale].exists =>
                 IF FailedLocale(locale)
                 THEN stores[locale] = prior[locale]
                 ELSE /\ stores[locale].exists
                      /\ stores[locale].valid
                      /\ AsMap(stores[locale].data)
                           = Overwritten(AsMap(prior[locale].data),
                                         priorBatch.data[i][2])

\* C15 witness: a merge in which the first locale of the batch failed and a
\* later locale was merged and written.
MergeWentOnAfterFailure ==
    /\ MergedValidBatch
    /\ Len(priorBatch.data) > 1
    /\ FailedLocale(priorBatch.data[1][1])
    /\ \E i \in 2..Len(priorBatch.data) :
         /\ ~FailedLocale(priorBatch.data[i][1])
         /\ stores[priorBatch.data[i][1]] # prior[priorBatch.data[i][1]]

-----------------------------------------------------------------------------
(* The report of a rejected batch *)

\* the text is missing or holds nothing but whitespace
MissingOrWhitespace(text) == \A c \in 1..Len(text) : IsSpace(text[c])

\* C16: when a merge run rejects a batch as incomplete, an entry of the batch
\* is reported, as its `locale: "key"` item, exactly if its text is missing
\* or blank after trimming, and nothing else is reported.
MergeReportsExactlyBlankEntries ==
    (lastOp = "merge" /\ status = "rejected") =>
        /\ \A i \in 1..Len(priorBatch.data) :
             \A j \in 1..Len(priorBatch.data[i][2]) :
               (\E r \in 1..Len(reported) :
                   reported[r] = ReportItem(priorBatch.data[i][1],
                                            priorBatch.data[i][2][j][1]))
               <=> MissingOrWhitespace(priorBatch.data[i][2][j][2])
        /\ \A r \in 1..Len(reported) :
             \E i \in 1..Len(priorBatch.data) :
               \E j \in 1..Len(priorBatch.data[i][2]) :
                 reported[r] = ReportItem(priorBatch.data[i][1],
                                          priorBatch.data[i][2][j][1])

\* C16 witness: a rejected batch with entries reported from two locales and
\* a filled entry that is not reported.
MergeReportedSomeEntries ==
    /\ lastOp = "merge"
    /\ status = "rejected"
    /\ \E r1, r2 \in 1..Len(reported) : reported[r1][1] # reported[r2][1]
    /\ \E i \in 1..Len(priorBatch.data) :
         \E j \in 1..Len(priorBatch.data[i][2]) :
           ~MissingOrWhitespace(priorBatch.data[i][2][j][2])

-----------------------------------------------------------------------------
(* The workflow without hand edits: source changes, synchronization runs,
   filling of the batch, merge runs *)

NextWorkflow ==
    \/ Sync
    \/ Merge
    \/ ChangeSource
    \/ FillBatch

SpecWorkflow == Init /\ [][NextWorkflow]_vars

\* the keys of the canonical locale's file
CanonicalKeySet == KeySet(stores[CANONICAL_LOCALE].data)

\* C17: in every state of the workflow every key that toTranslate.json names
\* is a key of the canonical locale's file, and a merge run adds no key to a
\* locale file that the canonical locale's file does not have.
BatchKeysAreCanonicalKeys ==
    /\ batch.exists =>
          \A i \in 1..Len(batch.data) :
            \A j \in 1..Len(batch.data[i][2]) :
              batch.data[i][2][j][1] \in CanonicalKeySet
    /\ lastOp = "merge" =>
          \A locale \in LocaleSet :
            KeySet(stores[locale].data) \ KeySet(prior[locale].data)
                \subseteq CanonicalKeySet

-----------------------------------------------------------------------------
(* The merge run, missing locale files and the end of the batch *)

\* C18: after the merge of a valid batch, a batch locale whose file was
\* missing has a file, and the file holds the entries of the batch.
MergeCreatesMissingStore ==
    (MergedValidBatch /\ WellFormed(priorBatch.data)) =>
        \A i \in 1..Len(priorBatch.data) :
            LET locale == priorBatch.data[i][1]
            IN ~prior[locale].exists =>
                 /\ stores[locale].exists
                 /\ AsMap(stores[locale].data) = AsMap(priorBatch.data[i][2])

\* C19: when a merge run has deleted toTranslate.json, every entry of that
\* batch is in the file of its locale.
MergeDeletesOnlyAppliedBatch ==
    (lastOp = "merge" /\ priorBatch.exists /\ ~batch.exists) =>
        \A i \in 1..Len(priorBatch.data) :
            \A j \in 1..Len(priorBatch.data[i][2]) :
                LET locale == priorBatch.data[i][1]
                    key == priorBatch.data[i][2][j][1]
                IN /\ stores[locale].exists
                   /\ HasKey(stores[locale].data, key)
                   /\ TextIn(stores[locale], key) = priorBatch.data[i][2][j][2]

\* the entries of the batch that the last merge run wrote: those of the
\* locales whose file it could load and save
AppliedEntries ==
    UNION {{<<i, j>> : j \in 1..Len(priorBatch.data[i][2])} :
             i \in {n \in 1..Len(priorBatch.data) :
                      /\ prior[priorBatch.data[n][1]].exists
                      /\ prior[priorBatch.data[n][1]].valid
                      /\ priorBatch.data[n][1] \notin writeFailed}}

\* C20: a merge run over a batch that passed the validation deletes
\* toTranslate.json exactly if it wrote at least one entry; when it wrote
\* none, the batch stays as it was and the run ends with the warning instead
\* of the success message.
MergeDeletesBatchIffMerged ==
    MergedValidBatch =>
        /\ ~batch.exists <=> Cardinality(AppliedEntries) >= 1
        /\ status = "merged" <=> Cardinality(AppliedEntries) >= 1
        /\ Cardinality(AppliedEntries) = 0 => batch = priorBatch

\* C20 witness: a merge run over a filled batch of two locales that could
\* write neither, and kept the batch.
MergeAppliedNothing ==
    /\ MergedValidBatch
    /\ status = "nothing"
    /\ Len(priorBatch.data) > 1
    /\ batch.exists

-----------------------------------------------------------------------------
(* The workflow with synchronization runs that are stopped half way *)

NextInterrupt ==
    \/ Sync
    \/ SyncInterrupted
    \/ ChangeSource
    \/ EditStore
    \/ DeleteStore

SpecInterrupt == Init /\ [][NextInterrupt]_vars

\* the locales the stopped run had not got to
Unprocessed == {SUPPORTED_LOCALES[i] : i \in (cut + 1)..Len(SUPPORTED_LOCALES)}

\* toTranslate.json lists the key for the locale
InBatch(locale, key) ==
    /\ batch.exists
    /\ HasKey(batch.data, locale)
    /\ HasKey(Lookup(batch.data, locale), key)

\* C21: after a complete synchronization run that follows a stopped one over
\* the same sources, every locale file holds exactly the source keys, every
\* text that is not blank and that a locale the stopped run had not got to
\* held for a source key is still there, and every blank text of a
\* non-canonical locale file is listed in toTranslate.json.
SyncHealsInterruptedRun ==
    (lastOp = "sync" /\ cut > 0) =>
        /\ \A locale \in LocaleSet :
             /\ stores[locale].exists
             /\ KeySet(stores[locale].data) = SourceKeySet
        /\ \A locale \in Unprocessed : \A key \in SourceKeySet :
             (/\ HasKey(prior[locale].data, key)
              /\ ~MissingOrWhitespace(TextIn(prior[locale], key))) =>
                 TextIn(stores[locale], key) = TextIn(prior[locale], key)
        /\ \A locale \in NonCanonical : \A key \in SourceKeySet :
             MissingOrWhitespace(TextIn(stores[locale], key)) => InBatch(locale, key)

\* C21 witness: the complete run after a run stopped behind the canonical
\* locale, with a kept text in a locale the stopped run had not got to and a
\* blank text listed for another.
SyncHealedWithKeptText ==
    /\ lastOp = "sync"
    /\ cut = 1
    /\ \E locale \in Unprocessed : \E key \in SourceKeySet :
         /\ HasKey(prior[locale].data, key)
         /\ ~MissingOrWhitespace(TextIn(prior[locale], key))
    /\ \E locale \in Unprocessed : \E key \in SourceKeySet :
         TextIn(stores[locale], key) = <<>> /\ InBatch(locale, key)

-----------------------------------------------------------------------------
(* The workflow with the round trip of a batch followed *)

InitTrip ==
    /\ files = <<<<>>, <<>>>>
    /\ stores = [locale \in LocaleSet |-> Absent]
    /\ batch = Absent
    /\ toTranslate = <<>>
    /\ prior = [locale \in LocaleSet |-> Absent]
    /\ priorBatch = Absent
    /\ lastOp = "init"
    /\ repeated = FALSE
    /\ status = "none"
    /\ reported = <<>>
    /\ writeFailed = {}
    /\ cut = 0
    /\ trip = "none"
    /\ edits = 0
    /\ runs = 0
    /\ content = <<>>
    /\ keys = <<>>
    /\ scanned = FALSE
    /\ lastIndex = 0
    /\ walkIndex = 0
    /\ walk = NoWalk

NextTrip ==
    \/ Sync
    \/ Merge
    \/ ChangeSource
    \/ FillBatch
    \/ EditStore
    \/ DeleteStore

SpecTrip == InitTrip /\ [][NextTrip]_vars

\* C22: when a synchronization run has written a batch, the batch has been
\* filled and merged with every locale written, and a synchronization run
\* follows over the same sources, then the batch was gone before that run,
\* the run writes no batch and leaves every locale file as the merge left it.
RoundTripCloses ==
    (lastOp = "sync" /\ trip = "closed") =>
        /\ ~priorBatch.exists
        /\ toTranslate = <<>>
        /\ ~batch.exists
        /\ stores = prior

\* C22 witness: a closed round trip that has put merged texts into the files
\* of two locales.
RoundTripClosedWithTexts ==
    /\ lastOp = "sync"
    /\ trip = "closed"
    /\ \A locale \in NonCanonical :
         \E i \in 1..Len(stores[locale].data) : stores[locale].data[i][2] = <<"t">>

-----------------------------------------------------------------------------
(* The scanner on texts of several calls: the call token, the two plain
   quotes, the backslash and a letter *)

MaxCallAtoms == 7

CallAtoms == { <<"t", "r", "(">>, <<"\"">>, <<"'">>, <<"\\">>, <<"a">> }

\* the text grows by one piece
WriteCall ==
    /\ ~scanned
    /\ PieceCount(content) < MaxCallAtoms
    /\ \E piece \in CallAtoms : content' = content \o piece
    /\ UNCHANGED <<keys, scanned, stepVars, syncVars>>

NextScanCalls ==
    \/ WriteCall
    \/ Scan

SpecScanCalls == ScanInit /\ [][NextScanCalls]_vars

\* a newline between the quotes that no backslash escapes
HasRawNewline(text, open, close) ==
    \E p \in (open + 1)..(close - 1) : text[p] = "\n" /\ Unescaped(text, open, p)

\* the opening quotes of the calls whose literal is closed, not empty, without
\* a raw newline and without a template marker
AcceptedOpens(text) ==
    {open \in CallOpens(text) :
        /\ ClosingQuote(text, open) > 0
        /\ Decoded(text, open, open + 1, ClosingQuote(text, open)) # <<>>
        /\ ~HasRawNewline(text, open, ClosingQuote(text, open))
        /\ ~IsTemplateLiteral(text, open)}

\* the text of the literal opened at open
LiteralOf(text, open) == Decoded(text, open, open + 1, ClosingQuote(text, open))

\* C23: a call whose literal the text ends in gives no key (a text whose
\* calls all end so gives none), and every call behind its token that has an
\* acceptable literal still gives its key.
ScanResumesBehindToken ==
    scanned =>
        /\ (\A open \in CallOpens(content) : ClosingQuote(content, open) = 0)
              => keys = <<>>
        /\ \A open \in CallOpens(content) :
             ClosingQuote(content, open) = 0 =>
               \A later \in AcceptedOpens(content) :
                 later > open => Includes(keys, LiteralOf(content, later))

\* C23 witness: a scanned text with a call whose literal is never closed and,
\* inside that literal, a call whose key is returned.
ScanFoundCallInOpenLiteral ==
    /\ scanned
    /\ \E open \in CallOpens(content) :
         /\ ClosingQuote(content, open) = 0
         /\ \E later \in AcceptedOpens(content) :
              later > open /\ Includes(keys, LiteralOf(content, later))

-----------------------------------------------------------------------------
(* Where a literal ends and what its key is *)

\* C24: the keys returned are exactly the texts of the acceptable literals of
\* the calls, a literal reaching from its opening quote to the first later
\* quote of the same kind that no backslash escapes, and its text being its
\* characters without the escaping backslashes; a call whose first character
\* behind the token and the whitespace is no quote gives no key.
ScanKeysAreLiteralTexts ==
    scanned =>
        SeqSet(keys) = {LiteralOf(content, open) : open \in AcceptedOpens(content)}

\* C24 witness: a returned key whose literal holds its own delimiter behind a
\* backslash.
ScanKeptEscapedDelimiter ==
    /\ scanned
    /\ \E open \in AcceptedOpens(content) :
         /\ Includes(keys, LiteralOf(content, open))
         /\ \E p \in (open + 1)..(ClosingQuote(content, open) - 1) :
              content[p] = content[open] /\ ~Unescaped(content, open, p)

-----------------------------------------------------------------------------
(* The canonical key set of a source tree: texts of whole calls in several
   files, scanned file by file and collected *)

MaxPieces == 4

\* the mark between the text of one source file and the next
FileEnd == "FILE_END"

\* the call tr('k')
CallOf(k) == <<"t", "r", "(", "'">> \o k \o <<"'", ")">>

\* the keys of the calls the source texts are made of
TreeKeys == {<<"a">>, <<"b">>, <<"a", "b">>}

\* the texts of the source files, in the order findSourceFiles returns them
RECURSIVE SplitFiles(_, _)
SplitFiles(text, current) ==
    IF text = <<>> THEN <<current>>
    ELSE IF Head(text) = FileEnd THEN <<current>> \o SplitFiles(Tail(text), <<>>)
    ELSE SplitFiles(Tail(text), Append(current, Head(text)))

\* the keys extractTrCallsFromFile returns for each of the texts
ScanEach(texts) == [i \in 1..Len(texts) |-> extractTrCallsFromFile(texts[i])]

\* the number of calls and file ends in the text
TreePieces(text) ==
    Cardinality({i \in 1..Len(text) : text[i] = "(" \/ text[i] = FileEnd})

\* the source tree grows by one call or by a new file
WriteTree ==
    /\ ~scanned
    /\ TreePieces(content) < MaxPieces
    /\ \/ \E k \in TreeKeys : content' = content \o CallOf(k)
       \/ content' = Append(content, FileEnd)
    /\ UNCHANGED <<keys, scanned, stepVars, syncVars>>

\* steps 1 of main: extractAllTrKeys over the files of the tree
Collect ==
    /\ ~scanned
    /\ files' = ScanEach(SplitFiles(content, <<>>))
    /\ keys' = extractAllTrKeys(files')
    /\ scanned' = TRUE
    /\ UNCHANGED <<content, stepVars, stores, batch, toTranslate, prior, priorBatch,
                   lastOp, repeated, status, reported, writeFailed, cut, trip,
                   edits, runs>>

NextTree ==
    \/ WriteTree
    \/ Collect

SpecTree == ScanInit /\ [][NextTree]_vars

\* s comes before t, character by character in the order of the code units
LexBefore(s, t) ==
    \E n \in 0..Len(s) :
        /\ n <= Len(t)
        /\ \A i \in 1..n : s[i] = t[i]
        /\ \/ n = Len(s) /\ n < Len(t)
           \/ n < Len(s) /\ n < Len(t) /\ Code(s[n + 1]) < Code(t[n + 1])

\* the keys whose call stands somewhere in the text
KeysWritten(text) ==
    {k \in TreeKeys :
        \E i \in 1..Len(text) :
            /\ i + Len(CallOf(k)) - 1 <= Len(text)
            /\ SubSeq(text, i, i + Len(CallOf(k)) - 1) = CallOf(k)}

\* C25: the keys a synchronization run collects are the keys whose call
\* stands in some source file, each once, in ascending lexicographic order,
\* whatever the order of the files and the order and number of the calls in
\* a file.
CollectedKeysAreSortedUnion ==
    scanned =>
        /\ SeqSet(keys) = KeysWritten(content)
        /\ \A i \in 1..(Len(keys) - 1) : LexBefore(keys[i], keys[i + 1])

\* C25 witness: a collected tree of two files with a key in both of them and
\* a file whose calls do not stand in ascending order.
CollectedFromTwoFiles ==
    /\ scanned
    /\ Len(files) > 1
    /\ \E k \in TreeKeys : Includes(files[1], k) /\ Includes(files[2], k)
    /\ \E i \in 1..Len(files) :
         \E m, n \in 1..Len(files[i]) : m < n /\ LexBefore(files[i][n], files[i][m])

-----------------------------------------------------------------------------
(* Calls inside literals *)

\* the token that starts at start stands inside the literal of a call whose
\* literal is acceptable
InsideAcceptedLiteral(text, start) ==
    \E outer \in AcceptedOpens(text) :
        outer < start /\ start < ClosingQuote(text, outer)

\* C26: every key returned is the text of the literal of a call whose token
\* stands outside the literal of every call that gave a key.
ScanKeysComeFromOuterCalls ==
    scanned =>
        \A i \in 1..Len(keys) :
            \E start \in CallTokens(content) :
                /\ OpenOf(content, start) \in AcceptedOpens(content)
                /\ LiteralOf(content, OpenOf(content, start)) = keys[i]
                /\ ~InsideAcceptedLiteral(content, start)

-----------------------------------------------------------------------------
(* The scanner, one step of its loops at a time *)

MaxStepAtoms == 5

StepAtoms == { <<"t", "r", "(">>, <<"\"">>, <<"\\">>, <<" ">>, <<"a">> }

\* the text grows by one piece while no scan has begun
WriteStep ==
    /\ ~scanned
    /\ lastIndex = 0
    /\ PieceCount(content) < MaxStepAtoms
    /\ \E piece \in StepAtoms : content' = content \o piece
    /\ UNCHANGED <<keys, scanned, stepVars, syncVars>>

\* the regular expression is created: its lastIndex is the start of the text
Begin ==
    /\ ~scanned
    /\ lastIndex = 0
    /\ lastIndex' = 1
    /\ UNCHANGED <<content, keys, scanned, walkIndex, walk, syncVars>>

\* a search that leaves lastIndex at the start of its match
LastIndexAtStart(text, start) == start

\* lastIndex after a match at start: the position behind the matched token
LastIndexAfter(text, start) == MatchEnd(text, start)

\* the test of the outer loop and the statements up to the inner loop: no
\* match ends the scan; a match without a quote behind it goes on to the next
\* search; a match with a quote starts the walk behind the quote
Exec ==
    /\ ~scanned
    /\ lastIndex > 0
    /\ walkIndex = 0
    /\ LET start == NextMatch(content, lastIndex)
       IN IF start = 0
          THEN /\ scanned' = TRUE
               /\ lastIndex' = 1
               /\ UNCHANGED <<walkIndex, walk>>
          ELSE LET open == SkipWhitespace(content, MatchEnd(content, start))
               IN /\ lastIndex' = LastIndexAfter(content, start)
                  /\ scanned' = FALSE
                  /\ IF open <= Len(content) /\ IsQuote(content[open])
                     THEN /\ walkIndex' = open + 1
                          /\ walk' = [NoWalk EXCEPT !.quote = content[open]]
                     ELSE UNCHANGED <<walkIndex, walk>>
    /\ UNCHANGED <<content, keys, syncVars>>

\* the walk stands on the closing quote
AtClosingQuote ==
    /\ walkIndex <= Len(content)
    /\ ~walk.escaped
    /\ content[walkIndex] = walk.quote

\* one pass of the inner loop that does not leave it
WalkStep ==
    /\ walkIndex > 0
    /\ walkIndex <= Len(content)
    /\ ~AtClosingQuote
    /\ LET char == content[walkIndex]
       IN IF walk.escaped
          THEN walk' = [walk EXCEPT !.value = Append(@, char), !.escaped = FALSE]
          ELSE IF char = "\\"
          THEN walk' = [walk EXCEPT !.escaped = TRUE]
          ELSE walk' = [walk EXCEPT
                   !.hasTemplateExpression =
                       \/ @
                       \/ /\ walk.quote = Backtick
                          /\ char = "$"
                          /\ walkIndex + 1 <= Len(content)
                          /\ content[walkIndex + 1] = "{",
                   !.hasNewline = @ \/ char = "\n",
                   !.value = Append(@, char)]
    /\ walkIndex' = walkIndex + 1
    /\ UNCHANGED <<content, keys, scanned, lastIndex, syncVars>>

\* the inner loop is left, at the closing quote or at the end of the text, and
\* the statements behind it run
EndWalk ==
    /\ walkIndex > 0
    /\ walkIndex > Len(content) \/ AtClosingQuote
    /\ keys' = IF \/ walkIndex > Len(content)
                  \/ walk.value = <<>>
                  \/ walk.hasNewline
                  \/ walk.hasTemplateExpression
                  \/ Includes(keys, walk.value)
               THEN keys
               ELSE Append(keys, walk.value)
    /\ walkIndex' = 0
    /\ walk' = NoWalk
    /\ UNCHANGED <<content, scanned, lastIndex, syncVars>>

NextSteps ==
    \/ WriteStep
    \/ Begin
    \/ Exec
    \/ WalkStep
    \/ EndWalk

\* a scan that has begun takes its next step
SpecSteps ==
    /\ ScanInit
    /\ [][NextSteps]_vars
    /\ WF_vars(Exec \/ WalkStep \/ EndWalk)

\* the progress of a scan: the position of the search first, then whether the
\* walk of the found call is over, then the position of the walk
Progress ==
    (2 * lastIndex + (IF walkIndex = 0 THEN 1 ELSE 0)) * (Len(content) + 2)
        + walkIndex

\* the call tokens the scan has found so far
TokensBehind == {start \in CallTokens(content) : start < lastIndex}

\* C27: a scan that has begun ends, whatever the text. Until it ends each of
\* its steps moves it forward: a search puts lastIndex behind a call token that
\* starts at or behind the old lastIndex, so that no token is found twice, and
\* a pass of the inner loop raises the index by one; neither position leaves
\* the text by more than one. The keys at the end are those of the whole scan.
ScanTerminates ==
    /\ (lastIndex > 0) ~> scanned
    /\ [](lastIndex <= Len(content) + 1 /\ walkIndex <= Len(content) + 1)
    /\ [](scanned => keys = extractTrCallsFromFile(content))
    /\ [][(lastIndex > 0 /\ ~scanned') =>
             /\ Progress' > Progress
             /\ walkIndex > 0 => walkIndex' \in {0, walkIndex + 1}
             /\ lastIndex' # lastIndex =>
                    /\ lastIndex' > lastIndex
                    /\ Cardinality(TokensBehind') = Cardinality(TokensBehind) + 1]_vars

\* C27 witness: a finished scan of a text that ends behind a backslash inside
\* the literal of a call.
ScanEndedInsideLiteral ==
    /\ scanned
    /\ lastIndex > 0
    /\ content # <<>>
    /\ content[Len(content)] = "\\"
    /\ \E open \in CallOpens(content) :
           /\ ClosingQuote(content, open) = 0
           /\ open < Len(content) - 1

====
